---- MODULE Spec2Model ----
(***************************************************************************)
(* Model of real_estate_agents.py: one run of the command-line extractor.  *)
(* main() fetches one listing page, PropertyRecord.from_html turns the     *)
(* parsed page into a record, validate_schema passes it on, and main       *)
(* writes the JSON payload to the output file and prints it.               *)
(*                                                                         *)
(* A page is given as the tree BeautifulSoup builds from it, in document   *)
(* order: a sequence of nodes, each a string node (NavigableString or      *)
(* Comment) or a tag with its attributes and the string nodes below it.    *)
(* A text is a sequence of characters, so that str.strip() and             *)
(* get_text(strip=True) are computed, not assumed.                         *)
(***************************************************************************)
EXTENDS Integers, Sequences, FiniteSets, TLC

VARIABLES
    pc,         \* position of the run in main() / extract()
    url,        \* args.url
    requests,   \* number of HTTP requests issued by requests.get
    status,     \* response.status_code, 0 while there is no response
    html_text,  \* local of extract(): the fetched page
    parsed,     \* local of extract(): the record from_html returned
    record,     \* local of main(): the record extract() returned
    payload,    \* local of main(): the dict handed to json.dump
    outfile,    \* content of the file at args.output
    stdout,     \* what print() has written
    exit_code,  \* exit status of the process, -1 while it runs
    error,      \* the exception that ended the run, "" when none
    steps       \* the operations completed so far, in order

vars == <<pc, url, requests, status, html_text, parsed, record, payload,
          outfile, stdout, exit_code, error, steps>>

----------------------------------------------------------------------------
(* Bounds of the model. *)

\* longest page of the field family (top-level nodes)
MaxNodes == 3

\* longest page of the image family (top-level nodes)
MaxImgs == 6

----------------------------------------------------------------------------
(* Texts. *)

\* Python None; no text is equal to it since "None" is not a character
NoneVal == <<"None">>

SP == "sp"

RECURSIVE LStrip(_)
LStrip(s) == IF s # <<>> /\ Head(s) = SP THEN LStrip(Tail(s)) ELSE s

RECURSIVE RStrip(_)
RStrip(s) ==
    IF s # <<>> /\ s[Len(s)] = SP THEN RStrip(SubSeq(s, 1, Len(s) - 1)) ELSE s

\* str.strip()
Strip(s) == RStrip(LStrip(s))

\* c in s
Contains(s, c) == \E i \in 1..Len(s) : s[i] = c

\* x or None
OrNone(s) == IF s = <<>> THEN NoneVal ELSE s

----------------------------------------------------------------------------
(* The parse tree. *)

NoAttrs ==
    [data_testid |-> NoneVal, name |-> NoneVal, content |-> NoneVal,
     src |-> NoneVal]

\* a tag: its name, its attributes (NoneVal for one it lacks), the strings below it
Tag(name, attrs, kids) ==
    [type |-> "tag", name |-> name, attrs |-> attrs, kids |-> kids,
     text |-> <<>>]

\* a string node of class cls ("NavigableString" or "Comment")
Str(cls, text) ==
    [type |-> "str", name |-> cls, attrs |-> NoAttrs, kids |-> <<>>,
     text |-> text]

\* what find() returns when nothing matches
NoNode == [type |-> "None", name |-> "", attrs |-> NoAttrs, kids |-> <<>>,
           text |-> <<>>]

Text(t) == Str("NavigableString", t)
Comment(t) == Str("Comment", t)

\* the nodes of the tree in document order (a tag, then the strings below it)
RECURSIVE Descendants(_)
Descendants(nodes) ==
    IF nodes = <<>> THEN <<>>
    ELSE <<Head(nodes)>> \o Head(nodes).kids \o Descendants(Tail(nodes))

\* find() is find_all() cut to its first result, None when there is none
First(results) == IF results = <<>> THEN NoNode ELSE Head(results)

\* bool(x) of what find() returned: a Tag is always true, a string is true
\* when it is not empty, None is false
Truthy(el) ==
    CASE el.type = "tag" -> TRUE
      [] el.type = "str" -> el.text # <<>>
      [] OTHER -> FALSE

\* a or b
PyOr(a, b) == IF Truthy(a) THEN a ELSE b

\* the string classes get_text() keeps by default
InterestingStringTypes == {"NavigableString", "CData"}

RECURSIVE JoinStripped(_)
JoinStripped(strs) ==
    IF strs = <<>> THEN <<>>
    ELSE LET s == Head(strs)
             t == IF s.name \in InterestingStringTypes THEN Strip(s.text)
                  ELSE <<>>
         IN  t \o JoinStripped(Tail(strs))

\* Tag.get_text(strip=True): every string below the tag, each stripped, the
\* empty ones dropped, joined with nothing between them
TagGetTextStrip(el) == JoinStripped(el.kids)

\* NavigableString.get_text(strip=True), in the bs4 releases that define it:
\* the stripped string itself, or nothing when its class is not kept
StrGetTextStrip(s) == JoinStripped(<<s>>)

HasTestId(el, v) == el.type = "tag" /\ el.attrs.data_testid = <<v>>

\* soup.find(attrs={"data-testid": v})
FindByTestId(soup, v) ==
    First(SelectSeq(Descendants(soup), LAMBDA n : HasTestId(n, v)))

\* soup.find_all(name)
FindAllByName(soup, name) ==
    SelectSeq(Descendants(soup), LAMBDA n : n.type = "tag" /\ n.name = name)

\* soup.find(name)
FindByName(soup, name) == First(FindAllByName(soup, name))

\* soup.find("meta", attrs={"name": v})
FindMetaByName(soup, v) ==
    First(SelectSeq(FindAllByName(soup, "meta"), LAMBDA n : n.attrs.name = <<v>>))

\* soup.find(string=lambda s: isinstance(s, str) and c in s)
FindStringContaining(soup, c) ==
    First(SelectSeq(Descendants(soup),
                    LAMBDA n : n.type = "str" /\ Contains(n.text, c)))

----------------------------------------------------------------------------
(* PropertyRecord.from_html, field by field. *)

\* variant of from_html_address: the semantic element is looked up first
from_html_address_semantic_first(soup) ==
    LET address_el ==
            PyOr(FindByName(soup, "address"), FindByTestId(soup, "address"))
    IN  IF Truthy(address_el) THEN OrNone(TagGetTextStrip(address_el))
        ELSE NoneVal

\* variant of from_html_address: a marked element without text falls back to
\* the semantic element
from_html_address_fallback_on_empty(soup) ==
    LET marked == FindByTestId(soup, "address")
        address_el ==
            IF Truthy(marked) /\ TagGetTextStrip(marked) # <<>> THEN marked
            ELSE FindByName(soup, "address")
    IN  IF Truthy(address_el) THEN OrNone(TagGetTextStrip(address_el))
        ELSE NoneVal

from_html_address(soup) ==
    LET address_el ==
            PyOr(FindByTestId(soup, "address"), FindByName(soup, "address"))
    IN  IF Truthy(address_el) THEN OrNone(TagGetTextStrip(address_el))
        ELSE NoneVal

\* strHasGetText: hasattr(price_el, "get_text") when price_el is a string,
\* which depends on the installed bs4 release
from_html_price(soup, strHasGetText) ==
    LET price_el ==
            PyOr(FindByTestId(soup, "price"), FindStringContaining(soup, "$"))
    IN  IF Truthy(price_el)
        THEN IF price_el.type = "tag" THEN TagGetTextStrip(price_el)
             ELSE IF strHasGetText THEN StrGetTextStrip(price_el)
             ELSE Strip(price_el.text)
        ELSE NoneVal

from_html_desc_el(soup) ==
    PyOr(FindByTestId(soup, "home-description-text"),
         FindMetaByName(soup, "description"))

\* desc_el.get("content").strip() with no content attribute: None.strip()
from_html_raises(soup) ==
    LET desc_el == from_html_desc_el(soup)
    IN  Truthy(desc_el) /\ desc_el.name = "meta"
        /\ desc_el.attrs.content = NoneVal

from_html_description(soup) ==
    LET desc_el == from_html_desc_el(soup)
    IN  IF Truthy(desc_el)
        THEN OrNone(IF desc_el.name = "meta" THEN Strip(desc_el.attrs.content)
                    ELSE TagGetTextStrip(desc_el))
        ELSE NoneVal

\* the [:5] of the image list
ImageCap == 5

\* variant of from_html_image_urls: the list is not truncated
from_html_image_urls_uncapped(soup) ==
    LET srcs == SelectSeq(FindAllByName(soup, "img"),
                          LAMBDA img : img.attrs.src # NoneVal
                                       /\ img.attrs.src # <<>>)
    IN  [i \in 1..Len(srcs) |-> srcs[i].attrs.src]

from_html_image_urls(soup) ==
    LET srcs == SelectSeq(FindAllByName(soup, "img"),
                          LAMBDA img : img.attrs.src # NoneVal
                                       /\ img.attrs.src # <<>>)
        urls == [i \in 1..Len(srcs) |-> srcs[i].attrs.src]
    IN  SubSeq(urls, 1, IF Len(urls) < ImageCap THEN Len(urls) ELSE ImageCap)

\* the dataclass, with the defaults of the fields from_html does not pass
PropertyRecord(address, price, description, image_urls) ==
    [address |-> address, price |-> price, bedrooms |-> NoneVal,
     bathrooms |-> NoneVal, square_feet |-> NoneVal, lot_size |-> NoneVal,
     year_built |-> NoneVal, property_type |-> NoneVal,
     listing_agent |-> NoneVal, days_on_market |-> NoneVal,
     mls_number |-> NoneVal, description |-> description,
     image_urls |-> image_urls, neighborhood |-> NoneVal]

\* no record (None)
NoRecord == [none |-> TRUE]

from_html(soup, strHasGetText) ==
    PropertyRecord(from_html_address(soup),
                   from_html_price(soup, strHasGetText),
                   from_html_description(soup),
                   from_html_image_urls(soup))

----------------------------------------------------------------------------
(* SimpleExtractionAgent. *)

\* variant of RaiseForStatus: only server errors raise
RaiseForStatus_server_errors_only(st) == st >= 500 /\ st < 600

\* response.raise_for_status(): raises for a 4xx or 5xx status
RaiseForStatus(st) == st >= 400 /\ st < 600

\* variant of validate_schema: a missing price is coerced to the empty string
validate_schema_coercing(rec) ==
    [rec EXCEPT !.price = IF @ = NoneVal THEN <<>> ELSE @]

validate_schema(rec) == rec

----------------------------------------------------------------------------
(* main(): the payload and its JSON text. *)

SchemaVersion == <<"1.0">>

\* asdict(record)
AsDict(rec) == rec

BuildPayloadDict(rec, listing_url, now) ==
    [metadata |-> [extracted_at |-> now \o <<"Z">>,
                   source_url |-> listing_url,
                   schema_version |-> SchemaVersion],
     data |-> AsDict(rec)]

NoPayload == [none |-> TRUE]

Q == "\""

\* json.dumps of an Optional[str]
JsonStr(v) == IF v = NoneVal THEN <<"null">> ELSE <<Q>> \o v \o <<Q>>

RECURSIVE JsonItems(_)
JsonItems(urls) ==
    IF urls = <<>> THEN <<>>
    ELSE JsonStr(Head(urls))
         \o (IF Tail(urls) = <<>> THEN <<>> ELSE <<",">>)
         \o JsonItems(Tail(urls))

\* json.dumps of a list of str
JsonArray(urls) == <<"[">> \o JsonItems(urls) \o <<"]">>

\* the fields of the dataclass in declaration order
Fields ==
    <<"address", "price", "bedrooms", "bathrooms", "square_feet", "lot_size",
      "year_built", "property_type", "listing_agent", "days_on_market",
      "mls_number", "description", "image_urls", "neighborhood">>

RECURSIVE JsonMembers(_, _)
JsonMembers(d, keys) ==
    IF keys = <<>> THEN <<>>
    ELSE LET k == Head(keys)
         IN  <<Q, k, Q, ":">>
             \o (IF k = "image_urls" THEN JsonArray(d[k]) ELSE JsonStr(d[k]))
             \o (IF Tail(keys) = <<>> THEN <<>> ELSE <<",">>)
             \o JsonMembers(d, Tail(keys))

\* json.dumps(payload, ensure_ascii=False, indent=2), without the white space
JsonDumps(p) ==
    <<"{", Q, "metadata", Q, ":", "{">>
    \o JsonMembers(p.metadata, <<"extracted_at", "source_url", "schema_version">>)
    \o <<"}", ",", Q, "data", Q, ":", "{">>
    \o JsonMembers(p.data, Fields)
    \o <<"}", "}">>

\* no file at args.output
NoFile == <<>>

----------------------------------------------------------------------------
(* Inputs. *)

\* --url
Urls == {<<"u", "1">>, <<"u", "2">>}

\* datetime.utcnow().isoformat()
Times == {<<"t", "1">>, <<"t", "2">>}

\* status codes a server answers with
Statuses == {200, 304, 404, 503}

WS == <<SP>>
TA == <<SP, "a", SP>>
TDB == <<SP, "$", "b", SP>>

Attr1(k, v) == [NoAttrs EXCEPT ![k] = v]

\* the nodes of a page of the field family
NodePool ==
    {Tag("div", Attr1("data_testid", <<"address">>), k) :
        k \in {<<Text(WS)>>, <<Text(TA)>>, <<Text(TA), Text(TDB)>>}}
    \cup {Tag("address", NoAttrs, k) : k \in {<<>>, <<Text(TDB)>>}}
    \cup {Tag("span", Attr1("data_testid", <<"price">>), k) :
            k \in {<<>>, <<Text(TA)>>}}
    \cup {Tag("div", Attr1("data_testid", <<"home-description-text">>), k) :
            k \in {<<Comment(<<"$">>), Text(WS)>>, <<Text(TA)>>}}
    \cup {Tag("meta", [NoAttrs EXCEPT !.name = <<"description">>,
                                      !.content = c], <<>>) :
            c \in {NoneVal, WS, <<SP, "b">>}}
    \cup {Tag("meta", [NoAttrs EXCEPT
                         !.data_testid = <<"home-description-text">>,
                         !.content = <<"b">>], <<>>)}
    \cup {Tag("script", Attr1("src", <<"a">>), <<>>)}
    \cup {Text(TDB), Text(<<"$">>), Comment(<<SP, "$", SP>>)}

\* the nodes of a page of the image family
ImgPool ==
    {Tag("img", Attr1("src", s), <<>>) : s \in {NoneVal, <<>>, <<"a">>, <<"b">>}}

Docs(pool, n) == UNION {[1..k -> pool] : k \in 0..n}

\* the pages a server can answer with
Pages == Docs(NodePool, MaxNodes) \cup Docs(ImgPool, MaxImgs)

\* the body that comes with a status: a 304 has none
Bodies(st) == IF st = 304 THEN {<<>>} ELSE Pages

----------------------------------------------------------------------------
(* The run. *)

Init ==
    /\ pc = "start"
    /\ url \in Urls
    /\ requests = 0
    /\ status = 0
    /\ html_text = <<>>
    /\ parsed = NoRecord
    /\ record = NoRecord
    /\ payload = NoPayload
    /\ outfile = NoFile
    /\ stdout = <<>>
    /\ exit_code = -1
    /\ error = ""
    /\ steps = <<>>

\* an exception nothing catches: it leaves extract() and main() and ends the
\* process with status 1
Raise(e) ==
    /\ pc' = "failed"
    /\ error' = e
    /\ exit_code' = 1

\* fetch_listing_html: requests.get, raise_for_status, response.text
FetchListingHtml ==
    /\ pc = "start"
    /\ requests' = requests + 1
    /\ \/ /\ \E e \in {"ConnectionError", "Timeout"} : Raise(e)
          /\ UNCHANGED <<status, html_text, steps>>
       \/ \E st \in Statuses :
            /\ status' = st
            /\ IF RaiseForStatus(st)
               THEN Raise("HTTPError") /\ UNCHANGED <<html_text, steps>>
               ELSE /\ \E body \in Bodies(st) : html_text' = body
                    /\ pc' = "fetched"
                    /\ steps' = Append(steps, "fetch")
                    /\ UNCHANGED <<error, exit_code>>
    /\ UNCHANGED <<url, parsed, record, payload, outfile, stdout>>

\* parsed = PropertyRecord.from_html(html_text)
FromHtml ==
    /\ pc = "fetched"
    /\ IF from_html_raises(html_text)
       THEN Raise("AttributeError") /\ UNCHANGED <<parsed, steps>>
       ELSE /\ \E strHasGetText \in BOOLEAN :
                 parsed' = from_html(html_text, strHasGetText)
            /\ pc' = "parsed"
            /\ steps' = Append(steps, "from_html")
            /\ UNCHANGED <<error, exit_code>>
    /\ UNCHANGED <<url, requests, status, html_text, record, payload, outfile,
                   stdout>>

\* validated = self.validate_schema(parsed); return validated;
\* record = agent.extract(args.url)
ValidateSchema ==
    /\ pc = "parsed"
    /\ record' = validate_schema(parsed)
    /\ html_text' = <<>>
    /\ parsed' = NoRecord
    /\ pc' = "validated"
    /\ steps' = Append(steps, "validate_schema")
    /\ UNCHANGED <<url, requests, status, payload, outfile, stdout, exit_code,
                   error>>

\* payload = {...}
BuildPayload ==
    /\ pc = "validated"
    /\ \E now \in Times : payload' = BuildPayloadDict(record, url, now)
    /\ pc' = "payload"
    /\ steps' = Append(steps, "payload")
    /\ UNCHANGED <<url, requests, status, html_text, parsed, record, outfile,
                   stdout, exit_code, error>>

\* with open(args.output, "w") as f: json.dump(payload, f)
WriteOutput ==
    /\ pc = "payload"
    /\ \/ /\ outfile' = JsonDumps(payload)
          /\ pc' = "written"
          /\ steps' = Append(steps, "write")
          /\ UNCHANGED <<error, exit_code>>
       \/ /\ Raise("OSError")
          /\ UNCHANGED <<outfile, steps>>
    /\ UNCHANGED <<url, requests, status, html_text, parsed, record, payload,
                   stdout>>

\* variant of PrintPayload: the payload is printed before the file is written
PrintPayload_before_write ==
    /\ pc = "payload"
    /\ stdout' = JsonDumps(payload)
    /\ pc' = "printed"
    /\ steps' = Append(steps, "print")
    /\ UNCHANGED <<url, requests, status, html_text, parsed, record, payload,
                   outfile, exit_code, error>>

\* print(json.dumps(payload))
PrintPayload ==
    /\ pc = "written"
    /\ stdout' = JsonDumps(payload)
    /\ pc' = "printed"
    /\ steps' = Append(steps, "print")
    /\ UNCHANGED <<url, requests, status, html_text, parsed, record, payload,
                   outfile, exit_code, error>>

\* return 0; raise SystemExit(main())
Exit ==
    /\ pc = "printed"
    /\ exit_code' = 0
    /\ pc' = "exit"
    /\ steps' = Append(steps, "exit")
    /\ UNCHANGED <<url, requests, status, html_text, parsed, record, payload,
                   outfile, stdout, error>>

Next ==
    \/ FetchListingHtml
    \/ FromHtml
    \/ ValidateSchema
    \/ BuildPayload
    \/ WriteOutput
    \/ PrintPayload
    \/ Exit

Spec == Init /\ [][Next]_vars

----------------------------------------------------------------------------
(* What the properties below read off a page. *)

\* the nodes of the fetched page in document order
PageNodes == Descendants(html_text)

\* the position of the first node of the page with property P, 0 when none has it
FirstAt(P(_)) ==
    LET nodes == PageNodes
        hits == {i \in 1..Len(nodes) : P(nodes[i])}
    IN  IF hits = {} THEN 0 ELSE CHOOSE i \in hits : \A j \in hits : i <= j

IsMarked(n, v) == n.type = "tag" /\ n.attrs.data_testid = <<v>>
IsSemanticAddress(n) == n.type = "tag" /\ n.name = "address"
IsDescriptionMeta(n) ==
    n.type = "tag" /\ n.name = "meta" /\ n.attrs.name = <<"description">>
IsDollarString(n) == n.type = "str" /\ \E i \in 1..Len(n.text) : n.text[i] = "$"

\* the text nodes of an element
VisibleKids(el) == SelectSeq(el.kids, LAMBDA k : k.name = "NavigableString")

\* the text of an element: its text nodes one after the other, as they are
RECURSIVE RawText(_)
RawText(strs) ==
    IF strs = <<>> THEN <<>> ELSE Head(strs).text \o RawText(Tail(strs))

\* the text nodes of an element, each trimmed, one after the other
RECURSIVE TrimmedPieces(_)
TrimmedPieces(strs) ==
    IF strs = <<>> THEN <<>>
    ELSE Strip(Head(strs).text) \o TrimmedPieces(Tail(strs))

ElementText(el) == TrimmedPieces(VisibleKids(el))

Absent(v) == v = NoneVal

FetchErrors == {"ConnectionError", "Timeout", "HTTPError"}

\* the run was aborted by the fetch: nothing after the one request happened
AbortedByFetch ==
    /\ pc = "failed"
    /\ error \in FetchErrors
    /\ exit_code # 0 /\ exit_code # -1
    /\ requests = 1
    /\ steps = <<>>
    /\ html_text = <<>> /\ parsed = NoRecord /\ record = NoRecord
    /\ payload = NoPayload
    /\ outfile = NoFile /\ stdout = <<>>
    /\ ~ENABLED Next

----------------------------------------------------------------------------
(* C1 *)

\* C1: from_html returns a record for every page and never raises, so a run
\* can only end in a fetch failure (connection error, timeout, HTTP error).
C1_OnlyFetchFailures == error \in FetchErrors \cup {""}

----------------------------------------------------------------------------
(* C2 *)

----------------------------------------------------------------------------
(* C3 *)

\* C3: in the record from_html returns, address, price and description are
\* each absent or a non-empty string, never the empty string.
C3_AbsentOrNonEmpty ==
    pc = "parsed"
        => /\ parsed.address # <<>>
           /\ parsed.price # <<>>
           /\ parsed.description # <<>>

----------------------------------------------------------------------------
(* C4 *)

\* the src attribute of every image element, in document order (NoneVal for
\* an image element without one)
RECURSIVE ImgSrcs(_)
ImgSrcs(nodes) ==
    IF nodes = <<>> THEN <<>>
    ELSE (IF Head(nodes).type = "tag" /\ Head(nodes).name = "img"
          THEN <<Head(nodes).attrs.src>> ELSE <<>>)
         \o ImgSrcs(Tail(nodes))

\* seq without its members in drop
RECURSIVE Without(_, _)
Without(seq, drop) ==
    IF seq = <<>> THEN <<>>
    ELSE (IF Head(seq) \in drop THEN <<>> ELSE <<Head(seq)>>)
         \o Without(Tail(seq), drop)

\* the src values of the image elements that have a src attribute
SrcAttributes == Without(ImgSrcs(PageNodes), {NoneVal})

\* the src values of the image elements whose src attribute is not empty
NonEmptySrcs == Without(ImgSrcs(PageNodes), {NoneVal, <<>>})

\* u is the prefix of s of length min(5, Len(s))
IsCappedPrefix(u, s) ==
    /\ Len(u) <= 5
    /\ Len(s) <= 5 => Len(u) = Len(s)
    /\ Len(s) > 5 => Len(u) = 5
    /\ \A i \in 1..Len(u) : u[i] = s[i]

\* C4, as stated: image_urls is the prefix of length min(5, n) of the src
\* values, in document order, of the n image elements that have a src
\* attribute.
C4_EveryImageWithSrcAttribute ==
    pc = "parsed"
        => IsCappedPrefix(parsed.image_urls, SrcAttributes)

\* C4, amended: image_urls is the prefix of length min(5, n) of the src
\* values, in document order, of the n image elements whose src attribute is
\* present and not empty; an image element without a src attribute or with
\* an empty one is skipped, and no other element contributes.
C4_ImageUrls ==
    pc = "parsed"
        => IsCappedPrefix(parsed.image_urls, NonEmptySrcs)

C4_Witness ==
    /\ pc = "parsed"
    /\ Len(NonEmptySrcs) > 5
    /\ Len(parsed.image_urls) = 5
    /\ parsed.image_urls[1] # parsed.image_urls[2]

----------------------------------------------------------------------------
(* C5 *)

\* the price the claim expects of the fetched page
C5_ExpectedPrice ==
    LET m == FirstAt(LAMBDA n : IsMarked(n, "price"))
        d == FirstAt(IsDollarString)
    IN  IF m # 0 THEN ElementText(PageNodes[m])
        ELSE IF d # 0 THEN Strip(PageNodes[d].text)
        ELSE NoneVal

\* C5: the price is the text of the first element marked as price when there
\* is one, even after an earlier "$" string; otherwise the first string of
\* the page that contains "$", trimmed, so that it contains "$"; otherwise
\* it is absent.
C5_PriceFirstMatch ==
    pc = "parsed"
        => /\ parsed.price = C5_ExpectedPrice
           /\ (FirstAt(LAMBDA n : IsMarked(n, "price")) = 0
               /\ FirstAt(IsDollarString) # 0)
                 => \E i \in 1..Len(parsed.price) : parsed.price[i] = "$"

----------------------------------------------------------------------------
(* C6 *)

\* the description the claim expects of the fetched page
C6_ExpectedDescription ==
    LET m == FirstAt(LAMBDA n : IsMarked(n, "home-description-text"))
        d == FirstAt(IsDescriptionMeta)
    IN  IF m # 0 THEN OrNone(ElementText(PageNodes[m]))
        ELSE IF d # 0
             THEN IF PageNodes[d].attrs.content = NoneVal THEN NoneVal
                  ELSE OrNone(Strip(PageNodes[d].attrs.content))
        ELSE NoneVal

\* C6: once from_html has been applied to the fetched page there is a record
\* whose description is the text of the first element marked as description
\* when there is one; otherwise the trimmed content attribute of the first
\* metadata tag named "description" when there is one; otherwise absent. A
\* page that holds nothing but such a metadata tag yields its content as
\* description and no address.
C6_DescriptionFirstMatch ==
    (pc = "parsed" \/ error = "AttributeError")
        => /\ pc = "parsed"
           /\ parsed.description = C6_ExpectedDescription
           /\ (Len(html_text) = 1 /\ IsDescriptionMeta(html_text[1])
               /\ html_text[1].attrs.content = <<SP, "b">>)
                 => (parsed.description = <<"b">> /\ Absent(parsed.address))

----------------------------------------------------------------------------
(* C7 *)

\* the element the address is taken from: the first marked one, else the
\* first semantic one, else 0
C7_AddressAt ==
    LET m == FirstAt(LAMBDA n : IsMarked(n, "address"))
    IN  IF m # 0 THEN m ELSE FirstAt(IsSemanticAddress)

\* C7, as stated: the address is the text of the first element marked as
\* address, with surrounding white space trimmed, whatever semantic address
\* element the page has; otherwise the trimmed text of the first semantic
\* address element; otherwise absent.
C7_AddressIsTrimmedText ==
    pc = "parsed"
        => parsed.address =
              IF C7_AddressAt = 0 THEN NoneVal
              ELSE OrNone(Strip(RawText(VisibleKids(PageNodes[C7_AddressAt]))))

\* C7, amended: the address is taken from the first element marked as
\* address, whatever semantic address element the page has, otherwise from
\* the first semantic address element, and is that element's text nodes, each
\* trimmed of surrounding white space, one after the other (for an element
\* with one text node: its trimmed text); it is absent when there is no such
\* element or nothing is left of its text.
C7_AddressFirstMatch ==
    pc = "parsed"
        => parsed.address =
              IF C7_AddressAt = 0 THEN NoneVal
              ELSE OrNone(ElementText(PageNodes[C7_AddressAt]))

\* a semantic address element with text comes first, a marked one with the
\* text " a " later, and the address is "a"
C7_Witness ==
    /\ pc = "parsed"
    /\ FirstAt(IsSemanticAddress) # 0
    /\ FirstAt(LAMBDA n : IsMarked(n, "address")) > FirstAt(IsSemanticAddress)
    /\ ElementText(PageNodes[FirstAt(IsSemanticAddress)]) = <<"$", "b">>
    /\ RawText(PageNodes[C7_AddressAt].kids) = <<SP, "a", SP>>
    /\ parsed.address = <<"a">>

----------------------------------------------------------------------------
(* C8 *)

\* C8, as stated: the payload of a successful run is determined by the URL
\* and the fetched page alone: whatever else the run reads, the payload built
\* from the validated record is the same.
C8_PayloadDetermined ==
    pc = "validated"
        => \A t1, t2 \in Times :
              BuildPayloadDict(record, url, t1) = BuildPayloadDict(record, url, t2)

ReservedFields ==
    {"bedrooms", "bathrooms", "square_feet", "lot_size", "year_built",
     "property_type", "listing_agent", "days_on_market", "mls_number",
     "neighborhood"}

\* C8, amended: apart from metadata.extracted_at, which is the clock reading,
\* the payload of a successful run is determined by the URL and the fetched
\* page: validate_schema hands back the record from_html returned with no
\* field changed, payload.data is that record field for field (the reserved
\* fields null, image_urls a list), metadata.source_url is the --url argument
\* and metadata.schema_version is "1.0"; record and payload do not change
\* afterwards.
C8_PayloadFrame ==
    [][ /\ pc = "parsed" => record' = parsed
        /\ pc = "validated"
              => /\ payload'.data = record
                 /\ \A f \in ReservedFields : payload'.data[f] = NoneVal
                 /\ payload'.data.image_urls \in Seq(Seq({"a", "b"}))
                 /\ payload'.metadata.source_url = url
                 /\ payload'.metadata.schema_version = <<"1.0">>
        /\ pc \in {"validated", "payload", "written", "printed"}
              => record' = record /\ url' = url
        /\ pc \in {"payload", "written", "printed"} => payload' = payload
      ]_vars

C8_Witness ==
    /\ pc = "exit" /\ exit_code = 0
    /\ payload.data = record
    /\ record.address = <<"a">> /\ record.price = <<"$", "b">>
    /\ payload.metadata.source_url = <<"u", "2">>

----------------------------------------------------------------------------
(* C9 *)

StepOrder ==
    <<"fetch", "from_html", "validate_schema", "payload", "write", "print",
      "exit">>

\* C9: the steps of a run are completed in the order fetch, extract, validate,
\* build the payload, write the file, print, exit, each at most once (one
\* request at most); the file is written only after fetch, extraction and
\* validation, the text printed is the text written, exit status 0 comes only
\* after all of them, and a run that failed takes no further step.
C9_StepOrder ==
    /\ Len(steps) <= Len(StepOrder)
    /\ \A i \in 1..Len(steps) : steps[i] = StepOrder[i]
    /\ requests <= 1
    /\ requests = 0 => steps = <<>>
    /\ outfile # NoFile
          => /\ Len(steps) >= 5
             /\ record # NoRecord /\ payload # NoPayload
             /\ payload.data = record
    /\ stdout # <<>> => (outfile # NoFile /\ stdout = outfile /\ Len(steps) >= 6)
    /\ exit_code = 0 => (steps = StepOrder /\ stdout # <<>> /\ error = "")
    /\ pc = "failed" => (exit_code = 1 /\ error # "" /\ ~ENABLED Next)
    /\ error # "" => pc = "failed"

C9_Witness == pc = "exit" /\ exit_code = 0 /\ steps = StepOrder /\ stdout = outfile

----------------------------------------------------------------------------
(* C10 *)

\* the first element marked v exists and has no text
MarkedWithoutText(v) ==
    LET m == FirstAt(LAMBDA n : IsMarked(n, v))
    IN  m # 0 /\ ElementText(PageNodes[m]) = <<>>

====
